---- MODULE Spec2Model ----
(***************************************************************************)
(* Model of the i* -> UVL converter, in its two variants:                  *)
(*   src/istar-uvl.py   (standard-library parser, tolerant loader)         *)
(*   src/iStar-UVL.py   (lxml / unidecode variant)                         *)
(*                                                                         *)
(* A Python str is modelled as a sequence of one-character strings:        *)
(* "aes" is <<"a","e","s">>.  The characters covered are ASCII letters,    *)
(* digits, punctuation, space, tab, newline, form feed and carriage        *)
(* return.  On that domain unidecode() and the NFD / category-Mn filter    *)
(* leave a text unchanged, and html.unescape() leaves unchanged every text *)
(* without "&"; the alphabets below contain no "&" and no non-ASCII        *)
(* character.                                                              *)
(***************************************************************************)
EXTENDS Naturals, Sequences, FiniteSets, TLC

VARIABLES
    variant,              \* which script runs
    configFiles,          \* config/<category>.txt: Missing or its lines
    xmlDoc,               \* the input XML: Unparseable or its <object> elements
    outputBefore,         \* the output path's content when the run starts
    outputFile,           \* the output path's content now
    pc,                   \* position inside generateUvlFromIStarXml
    error,                \* the exception that ended the run, or NoError
    mappingDictionaries,  \* local of generateUvlFromIStarXml
    objectList,           \* local of generateUvlFromIStarXml
    rootLabel,            \* local of generateUvlFromIStarXml (Unbound until assigned)
    rootFeature,          \* local of generateUvlFromIStarXml
    algos, nfrs, backs, integrs,   \* the four sorted lists
    detected,             \* the backs / integrs sets before applyDefaultValues
    uvlContent            \* local of generateUvlFromIStarXml

vars == <<variant, configFiles, xmlDoc, outputBefore, outputFile, pc, error,
          mappingDictionaries, objectList, rootLabel, rootFeature,
          algos, nfrs, backs, integrs, detected, uvlContent>>

(***************************************************************************)
(* Characters                                                              *)
(***************************************************************************)
LowerLetters == <<"a","b","c","d","e","f","g","h","i","j","k","l","m",
                  "n","o","p","q","r","s","t","u","v","w","x","y","z">>

UpperLetters == <<"A","B","C","D","E","F","G","H","I","J","K","L","M",
                  "N","O","P","Q","R","S","T","U","V","W","X","Y","Z">>

DigitChars == {"0","1","2","3","4","5","6","7","8","9"}

\* ASCII 32 .. 95 in code-point order
AsciiLow ==
    <<" ","!","\"","#","$","%","&","'","(",")","*","+",",","-",".","/",
      "0","1","2","3","4","5","6","7","8","9",":",";","<","=",">","?",
      "@","A","B","C","D","E","F","G","H","I","J","K","L","M","N","O",
      "P","Q","R","S","T","U","V","W","X","Y","Z","[","\\","]","^","_">>

\* ASCII 97 .. 126 in code-point order (96, the backquote, cannot be written
\* in a TLA+ string and is left out)
AsciiHigh ==
    <<"a","b","c","d","e","f","g","h","i","j","k","l","m","n","o",
      "p","q","r","s","t","u","v","w","x","y","z","{","|","}","~">>

\* ASCII 9 .. 13 (11, vertical tab, has no TLA+ escape and is left out)
AsciiControl == <<"\t","\n","\f","\r">>

Range(f) == {f[i] : i \in DOMAIN f}

IndexIn(seq, c) == CHOOSE i \in DOMAIN seq : seq[i] = c

\* ord(c): the code point, which is what str comparison orders by
Ord(c) ==
    CASE c = "\t" -> 9
      [] c = "\n" -> 10
      [] c = "\f" -> 12
      [] c = "\r" -> 13
      [] c \in Range(AsciiLow)  -> IndexIn(AsciiLow, c) + 31
      [] c \in Range(AsciiHigh) -> IndexIn(AsciiHigh, c) + 96

\* str.isspace() of one character
IsSpace(c) == c \in {" ", "\t", "\n", "\f", "\r"}

\* str.isalnum() of one character
IsAlnumChar(c) ==
    c \in Range(LowerLetters) \cup Range(UpperLetters) \cup DigitChars

\* str.lower() / str.upper() of one character
LowerChar(c) ==
    IF c \in Range(UpperLetters) THEN LowerLetters[IndexIn(UpperLetters, c)] ELSE c

UpperChar(c) ==
    IF c \in Range(LowerLetters) THEN UpperLetters[IndexIn(LowerLetters, c)] ELSE c

(***************************************************************************)
(* str methods                                                             *)
(***************************************************************************)
Lower(s) == [i \in DOMAIN s |-> LowerChar(s[i])]

RECURSIVE LStrip(_)
LStrip(s) ==
    IF s # <<>> /\ IsSpace(Head(s)) THEN LStrip(Tail(s)) ELSE s

RECURSIVE RStrip(_)
RStrip(s) ==
    IF s # <<>> /\ IsSpace(s[Len(s)]) THEN RStrip(SubSeq(s, 1, Len(s) - 1)) ELSE s

\* str.strip()
Strip(s) == RStrip(LStrip(s))

\* str.split(): the maximal runs of non-whitespace, in order
RECURSIVE SplitFrom(_, _)
SplitFrom(s, word) ==
    IF s = <<>> THEN (IF word = <<>> THEN <<>> ELSE <<word>>)
    ELSE IF IsSpace(Head(s))
         THEN (IF word = <<>> THEN <<>> ELSE <<word>>) \o SplitFrom(Tail(s), <<>>)
         ELSE SplitFrom(Tail(s), Append(word, Head(s)))

Split(s) == SplitFrom(s, <<>>)

\* sep.join(parts)
RECURSIVE Join(_, _)
Join(sep, parts) ==
    IF parts = <<>> THEN <<>>
    ELSE IF Len(parts) = 1 THEN parts[1]
    ELSE parts[1] \o sep \o Join(sep, Tail(parts))

\* str.startswith(prefix)
StartsWith(s, prefix) ==
    Len(prefix) <= Len(s) /\ SubSeq(s, 1, Len(prefix)) = prefix

\* "needle in s" answered by s.startswith(needle)
ContainsAsPrefix(needle, s) == StartsWith(s, needle)

\* "needle in s": scan for the first position where needle begins
RECURSIVE Contains(_, _)
Contains(needle, s) ==
    IF Len(needle) > Len(s) THEN FALSE
    ELSE IF StartsWith(s, needle) THEN TRUE
    ELSE Contains(needle, Tail(s))

\* s.find(needle): 0-based index of the first occurrence, Len(s) + 1 if none
RECURSIVE FindFrom(_, _, _)
FindFrom(needle, s, at) ==
    IF at + Len(needle) > Len(s) THEN Len(s) + 1
    ELSE IF SubSeq(s, at + 1, at + Len(needle)) = needle THEN at
    ELSE FindFrom(needle, s, at + 1)

\* s.split(sep, 1) for an s that contains sep: <<before, after>>
SplitOnce(s, sep) ==
    LET at == FindFrom(sep, s, 0)
    IN  <<SubSeq(s, 1, at), SubSeq(s, at + Len(sep) + 1, Len(s))>>

\* str.replace(old, new) for one-character old
Replace(s, old, new) == [i \in DOMAIN s |-> IF s[i] = old THEN new ELSE s[i]]

\* str.isalnum(): non-empty and every character alphanumeric
IsAlnum(s) == s # <<>> /\ \A i \in DOMAIN s : IsAlnumChar(s[i])

\* str.capitalize(): first character upper-cased, the rest lower-cased
Capitalize(s) ==
    [i \in DOMAIN s |-> IF i = 1 THEN UpperChar(s[i]) ELSE LowerChar(s[i])]

\* a < b on str: code-point order, a proper prefix first
RECURSIVE StrLess(_, _)
StrLess(a, b) ==
    IF b = <<>> THEN FALSE
    ELSE IF a = <<>> THEN TRUE
    ELSE IF Head(a) = Head(b) THEN StrLess(Tail(a), Tail(b))
    ELSE Ord(Head(a)) < Ord(Head(b))

\* sorted(S, reverse=True)
RECURSIVE SortedDescending(_)
SortedDescending(S) ==
    IF S = {} THEN <<>>
    ELSE LET least == CHOOSE x \in S : \A y \in S \ {x} : StrLess(x, y)
         IN  SortedDescending(S \ {least}) \o <<least>>

\* sorted(S) of a set of str
RECURSIVE Sorted(_)
Sorted(S) ==
    IF S = {} THEN <<>>
    ELSE LET least == CHOOSE x \in S : \A y \in S \ {x} : StrLess(x, y)
         IN  <<least>> \o Sorted(S \ {least})

(***************************************************************************)
(* Values that are not a str                                               *)
(***************************************************************************)
None == <<"None">>           \* Python's None where a str is expected

Unbound == <<"Unbound">>     \* a local variable no statement has assigned yet

Absent == <<"Absent">>       \* no file at the output path

StdVariant == "istar-uvl.py"

LxmlVariant == "iStar-UVL.py"

Variants == {StdVariant, LxmlVariant}

\* the category names, in the order loadAllMappingFiles reads them
Categories == <<"algorithms", "nfrs", "backend", "integration">>

RootGoal == <<"R","o","o","t","G","o","a","l">>

ProteinFolding == <<"P","r","o","t","e","i","n"," ","F","o","l","d","i","n","g">>

Hardware == <<"H","a","r","d","w","a","r","e">>

Middleware == <<"M","i","d","d","l","e","w","a","r","e">>

Precision == <<"P","r","e","c","i","s","i","o","n">>

Arrow == <<"=",">">>

(***************************************************************************)
(* cleanLabelText, normalizeText                                           *)
(***************************************************************************)
\* re.sub(r"<[^>]+>", " ", s): leftmost matches, left to right.  At a "<" the
\* match runs to the first ">" after it, which must not be the next character.
RECURSIVE RemoveTags(_)
RemoveTags(s) ==
    IF s = <<>> THEN <<>>
    ELSE IF Head(s) = "<"
         THEN LET close == FindFrom(<<">">>, s, 1)
              IN  IF close >= 2 /\ close < Len(s)
                  THEN <<" ">> \o RemoveTags(SubSeq(s, close + 2, Len(s)))
                  ELSE <<"<">> \o RemoveTags(Tail(s))
         ELSE <<Head(s)>> \o RemoveTags(Tail(s))

\* html.unescape(s) for a text without "&"
HtmlUnescape(s) == s

cleanLabelText(rawText) ==
    IF rawText = None THEN <<>>
    ELSE Strip(RemoveTags(HtmlUnescape(rawText)))

\* unidecode(s), and the NFD decomposition with the "Mn" characters dropped,
\* for an ASCII text
Unaccent(s) == s

normalizeText(inputText) ==
    IF inputText = None THEN <<>>
    ELSE Join(<<" ">>, Split(Unaccent(Lower(Strip(inputText)))))

(***************************************************************************)
(* The root-identifier formatters                                          *)
(***************************************************************************)
RECURSIVE CapitalizeAlnumWords(_)
CapitalizeAlnumWords(words) ==
    IF words = <<>> THEN <<>>
    ELSE (IF IsAlnum(Head(words)) THEN <<Capitalize(Head(words))>> ELSE <<>>)
         \o CapitalizeAlnumWords(Tail(words))

\* istar-uvl.py
convertTextToUvlIdentifier(inputText) ==
    IF inputText = None THEN RootGoal
    ELSE LET joinedText ==
                 [i \in DOMAIN inputText |->
                     IF IsAlnumChar(inputText[i]) \/ inputText[i] \in {" ", "_"}
                     THEN inputText[i] ELSE " "]
             separatedText == Replace(joinedText, "_", " ")
             words == CapitalizeAlnumWords(Split(separatedText))
         IN  IF Len(words) = 0 THEN RootGoal ELSE Join(<<>>, words)

\* iStar-UVL.py
formatRootFeatureName(inputText) ==
    IF inputText = None \/ inputText = <<>> THEN RootGoal
    ELSE LET cleaned == cleanLabelText(inputText)
             normalized == normalizeText(cleaned)
             words == Split(Replace(normalized, "_", " "))
             identifier == Join(<<>>, CapitalizeAlnumWords(words))
         IN  IF identifier = <<>> THEN RootGoal ELSE identifier

\* the formatter generateUvlFromIStarXml calls in each script
FormatRoot(v, inputText) ==
    IF v = StdVariant THEN convertTextToUvlIdentifier(inputText)
    ELSE formatRootFeatureName(inputText)

(***************************************************************************)
(* loadMappingFile, loadAllMappingFiles                                    *)
(*                                                                         *)
(* A dict is a function from its keys to their values; an assignment       *)
(* m[k] = v adds the key or replaces its value.  A file is a record        *)
(* [exists, lines]; iterating it yields each line with its line break.     *)
(***************************************************************************)
EmptyDict == <<>>

DictSet(m, k, v) == [x \in DOMAIN m \cup {k} |-> IF x = k THEN v ELSE m[x]]

\* istar-uvl.py, one iteration of "for line in file"
LoadLineStd(mapping, line) ==
    LET cleanedLine == Strip(line)
    IN  IF cleanedLine = <<>> \/ StartsWith(cleanedLine, <<"#">>)
           \/ ~Contains(Arrow, cleanedLine)
        THEN mapping
        ELSE LET parts == SplitOnce(line, Arrow)
             IN  DictSet(mapping, normalizeText(parts[1]), Strip(parts[2]))

\* iStar-UVL.py, one iteration of "for line in file"; "cleanedLine is None"
\* is never true of a str
LoadLineLxml(mapping, line) ==
    LET cleanedLine == Strip(line)
    IN  IF ~Contains(Arrow, cleanedLine)
        THEN mapping
        ELSE LET parts == SplitOnce(cleanedLine, Arrow)
             IN  DictSet(mapping, normalizeText(parts[1]), Strip(parts[2]))

LoadLine(v, mapping, line) ==
    IF v = StdVariant THEN LoadLineStd(mapping, line) ELSE LoadLineLxml(mapping, line)

RECURSIVE LoadLines(_, _, _)
LoadLines(v, mapping, lines) ==
    IF lines = <<>> THEN mapping
    ELSE LoadLines(v, LoadLine(v, mapping, Head(lines) \o <<"\n">>), Tail(lines))

\* [raised |-> the call ended in FileNotFoundError, mapping |-> the dict returned]
loadMappingFile(v, file) ==
    IF ~file.exists
    THEN [raised |-> v = LxmlVariant, mapping |-> EmptyDict]
    ELSE [raised |-> FALSE, mapping |-> LoadLines(v, EmptyDict, file.lines)]

\* [raised |-> some loadMappingFile call raised, mappings |-> category -> dict]
loadAllMappingFiles(v, files) ==
    [raised   |-> \E c \in Range(Categories) : loadMappingFile(v, files[c]).raised,
     mappings |-> [c \in Range(Categories) |-> loadMappingFile(v, files[c]).mapping]]

(***************************************************************************)
(* parseIStarXml                                                           *)
(*                                                                         *)
(* An <object> element is a record [type, label] of attribute values, None *)
(* for an attribute the element does not carry.                            *)
(***************************************************************************)
parseObject(obj) ==
    LET rawLabel == IF obj.label = None THEN <<>> ELSE obj.label
        labelText == cleanLabelText(rawLabel)
        typeText == IF obj.type = None THEN <<>> ELSE Lower(obj.type)
    IN  [type |-> typeText, label |-> labelText, norm |-> normalizeText(labelText)]

parseIStarXml(objects) == [i \in DOMAIN objects |-> parseObject(objects[i])]

(***************************************************************************)
(* mapIStarObjectsToFeatures, applyDefaultValues                           *)
(***************************************************************************)
\* the features one category's inner loop adds for one object
FeaturesOfObject(txt, table) ==
    {table[keyword] : keyword \in {k \in DOMAIN table : Contains(k, txt)}}

\* the set one category accumulates over "for obj in objectList"
RECURSIVE ScanObjects(_, _)
ScanObjects(objs, table) ==
    IF objs = <<>> THEN {}
    ELSE FeaturesOfObject(Head(objs).norm, table) \cup ScanObjects(Tail(objs), table)

DictValues(m) == {m[k] : k \in DOMAIN m}

\* the fallback applied whatever the tables declare
applyDefaultValuesUndeclared(backsSet, integrsSet, mappings) ==
    <<IF Cardinality(backsSet) = 0 THEN backsSet \cup {Hardware} ELSE backsSet,
      IF Cardinality(integrsSet) = 0 THEN integrsSet \cup {Middleware} ELSE integrsSet>>

applyDefaultValues(backsSet, integrsSet, mappings) ==
    <<IF Cardinality(backsSet) = 0 /\ Hardware \in DictValues(mappings["backend"])
      THEN backsSet \cup {Hardware} ELSE backsSet,
      IF Cardinality(integrsSet) = 0 /\ Middleware \in DictValues(mappings["integration"])
      THEN integrsSet \cup {Middleware} ELSE integrsSet>>

mapIStarObjectsToFeatures(objs, mappings) ==
    LET algosSet == ScanObjects(objs, mappings["algorithms"])
        nfrsSet == ScanObjects(objs, mappings["nfrs"])
        backsSet == ScanObjects(objs, mappings["backend"])
        integrsSet == ScanObjects(objs, mappings["integration"])
        withDefaults == applyDefaultValues(backsSet, integrsSet, mappings)
    IN  [algos    |-> Sorted(algosSet),
         nfrs     |-> Sorted(nfrsSet),
         backs    |-> Sorted(withDefaults[1]),
         integrs  |-> Sorted(withDefaults[2]),
         detected |-> [backend |-> backsSet, integration |-> integrsSet]]

(***************************************************************************)
(* buildUvlModel                                                           *)
(***************************************************************************)
Indented(prefix, items) == [i \in DOMAIN items |-> prefix \o items[i]]

SubBlock(title, items) ==
    IF Len(items) > 0
    THEN <<<<" "," "," "," ">> \o title \o <<" ","{">>>>
         \o Indented(<<" "," "," "," "," "," ">>, items)
         \o <<<<" "," "," "," ","}">>>>
    ELSE <<>>

ConstraintLine(algo) == <<" "," ">> \o algo \o <<" ","r","e","q","u","i","r","e","s"," ","P","r","e","c","i","s","i","o","n">>

\* the constraints block written whenever there is an algorithm
ConstraintsBlockIgnoringNfrs(algoList, nfrList) ==
    IF Len(algoList) > 0
    THEN <<<<"c","o","n","s","t","r","a","i","n","t","s"," ","{">>>>
         \o [i \in DOMAIN algoList |-> ConstraintLine(algoList[i])]
         \o <<<<"}">>>>
    ELSE <<>>

ConstraintsBlock(algoList, nfrList) ==
    IF Len(algoList) > 0 /\ Precision \in Range(nfrList)
    THEN <<<<"c","o","n","s","t","r","a","i","n","t","s"," ","{">>>>
         \o [i \in DOMAIN algoList |-> ConstraintLine(algoList[i])]
         \o <<<<"}">>>>
    ELSE <<>>

\* the list "lines" with the nfr lines appended before the three sub-blocks
UvlLinesNfrsFirst(root, algoList, nfrList, backList, integrList) ==
    <<<<"f","e","a","t","u","r","e","s"," ","{">>, <<" "," ">> \o root \o <<" ","{">>>>
    \o Indented(<<" "," "," "," ">>, nfrList)
    \o SubBlock(<<"A","l","g","o","r","i","t","h","m">>, algoList)
    \o SubBlock(<<"B","a","c","k","e","n","d">>, backList)
    \o SubBlock(<<"I","n","t","e","g","r","a","t","i","o","n","M","o","d","e","l">>, integrList)
    \o <<<<" "," ","}">>, <<"}">>, <<>>>>
    \o ConstraintsBlock(algoList, nfrList)

\* the list "lines" at the return statement
UvlLines(root, algoList, nfrList, backList, integrList) ==
    <<<<"f","e","a","t","u","r","e","s"," ","{">>, <<" "," ">> \o root \o <<" ","{">>>>
    \o SubBlock(<<"A","l","g","o","r","i","t","h","m">>, algoList)
    \o SubBlock(<<"B","a","c","k","e","n","d">>, backList)
    \o SubBlock(<<"I","n","t","e","g","r","a","t","i","o","n","M","o","d","e","l">>, integrList)
    \o Indented(<<" "," "," "," ">>, nfrList)
    \o <<<<" "," ","}">>, <<"}">>, <<>>>>
    \o ConstraintsBlock(algoList, nfrList)

buildUvlModel(root, algoList, nfrList, backList, integrList) ==
    Join(<<"\n">>, UvlLines(root, algoList, nfrList, backList, integrList))

(***************************************************************************)
(* generateUvlFromIStarXml, statement by statement                         *)
(***************************************************************************)
NoError == "none"

\* the "for obj in objectList" loop with its break; current is rootLabel
\* before the loop
RECURSIVE ScanForRootLabel(_, _)
ScanForRootLabel(objs, current) ==
    IF objs = <<>> THEN current
    ELSE IF Head(objs).type = <<"g","o","a","l">> /\ Strip(Head(objs).label) # <<>>
         THEN Head(objs).label
         ELSE ScanForRootLabel(Tail(objs), current)

\* the root-label loop without its break: the last qualifying goal wins
RECURSIVE ScanForRootLabelNoBreak(_, _)
ScanForRootLabelNoBreak(objs, current) ==
    IF objs = <<>> THEN current
    ELSE IF Head(objs).type = <<"g","o","a","l">> /\ Strip(Head(objs).label) # <<>>
         THEN ScanForRootLabelNoBreak(Tail(objs), Head(objs).label)
         ELSE ScanForRootLabelNoBreak(Tail(objs), current)

selectRootLabelNoBreak(v, objs) ==
    ScanForRootLabelNoBreak(objs, IF v = StdVariant THEN ProteinFolding ELSE Unbound)

\* rootLabel after the loop: istar-uvl.py assigns "Protein Folding" before
\* the loop, iStar-UVL.py assigns nothing
selectRootLabel(v, objs) ==
    ScanForRootLabel(objs, IF v = StdVariant THEN ProteinFolding ELSE Unbound)

Fail(exception) ==
    /\ pc' = "failed"
    /\ error' = exception

\* mappingDictionaries = loadAllMappingFiles(configDirectory)
LoadConfig ==
    /\ pc = "load"
    /\ LET loaded == loadAllMappingFiles(variant, configFiles)
       IN  IF loaded.raised
           THEN Fail("FileNotFoundError") /\ UNCHANGED mappingDictionaries
           ELSE /\ mappingDictionaries' = loaded.mappings
                /\ pc' = "parse"
                /\ UNCHANGED error
    /\ UNCHANGED <<variant, configFiles, xmlDoc, outputBefore, outputFile,
                   objectList, rootLabel, rootFeature, algos, nfrs, backs,
                   integrs, detected, uvlContent>>

\* objectList = parseIStarXml(inputXmlFile)
ParseXml ==
    /\ pc = "parse"
    /\ IF ~xmlDoc.parseable
       THEN Fail("ParseError") /\ UNCHANGED objectList
       ELSE /\ objectList' = parseIStarXml(xmlDoc.objects)
            /\ pc' = "select"
            /\ UNCHANGED error
    /\ UNCHANGED <<variant, configFiles, xmlDoc, outputBefore, outputFile,
                   mappingDictionaries, rootLabel, rootFeature, algos, nfrs,
                   backs, integrs, detected, uvlContent>>

\* the root-label loop
SelectRootLabel ==
    /\ pc = "select"
    /\ rootLabel' = selectRootLabel(variant, objectList)
    /\ pc' = "format"
    /\ UNCHANGED <<variant, configFiles, xmlDoc, outputBefore, outputFile, error,
                   mappingDictionaries, objectList, rootFeature, algos, nfrs,
                   backs, integrs, detected, uvlContent>>

\* rootFeature = <formatter>(rootLabel); reading an unassigned rootLabel
\* raises UnboundLocalError
FormatRootFeature ==
    /\ pc = "format"
    /\ IF rootLabel = Unbound
       THEN Fail("UnboundLocalError") /\ UNCHANGED rootFeature
       ELSE /\ rootFeature' = FormatRoot(variant, rootLabel)
            /\ pc' = "map"
            /\ UNCHANGED error
    /\ UNCHANGED <<variant, configFiles, xmlDoc, outputBefore, outputFile,
                   mappingDictionaries, objectList, rootLabel, algos, nfrs,
                   backs, integrs, detected, uvlContent>>

\* algos, nfrs, backs, integrs = mapIStarObjectsToFeatures(...)
MapObjects ==
    /\ pc = "map"
    /\ LET result == mapIStarObjectsToFeatures(objectList, mappingDictionaries)
       IN  /\ algos' = result.algos
           /\ nfrs' = result.nfrs
           /\ backs' = result.backs
           /\ integrs' = result.integrs
           /\ detected' = result.detected
    /\ pc' = "build"
    /\ UNCHANGED <<variant, configFiles, xmlDoc, outputBefore, outputFile, error,
                   mappingDictionaries, objectList, rootLabel, rootFeature,
                   uvlContent>>

\* uvlContent = buildUvlModel(rootFeature, algos, nfrs, backs, integrs)
BuildUvl ==
    /\ pc = "build"
    /\ uvlContent' = buildUvlModel(rootFeature, algos, nfrs, backs, integrs)
    /\ pc' = "open"
    /\ UNCHANGED <<variant, configFiles, xmlDoc, outputBefore, outputFile, error,
                   mappingDictionaries, objectList, rootLabel, rootFeature,
                   algos, nfrs, backs, integrs, detected>>

\* the output file opened as the first statement of the run
OpenOutputFirst ==
    /\ \/ /\ pc = "load"
          /\ outputFile = outputBefore
          /\ outputFile' = <<>>
          /\ pc' = pc
       \/ /\ pc = "open"
          /\ pc' = "write"
          /\ UNCHANGED outputFile
    /\ UNCHANGED <<variant, configFiles, xmlDoc, outputBefore, error,
                   mappingDictionaries, objectList, rootLabel, rootFeature,
                   algos, nfrs, backs, integrs, detected, uvlContent>>

\* open(outputUvlFile, "w"): the file exists and is empty
OpenOutput ==
    /\ pc = "open"
    /\ outputFile' = <<>>
    /\ pc' = "write"
    /\ UNCHANGED <<variant, configFiles, xmlDoc, outputBefore, error,
                   mappingDictionaries, objectList, rootLabel, rootFeature,
                   algos, nfrs, backs, integrs, detected, uvlContent>>

\* outputFile.write(uvlContent), and the with block closes the file
WriteOutput ==
    /\ pc = "write"
    /\ outputFile' = outputFile \o uvlContent
    /\ pc' = "done"
    /\ UNCHANGED <<variant, configFiles, xmlDoc, outputBefore, error,
                   mappingDictionaries, objectList, rootLabel, rootFeature,
                   algos, nfrs, backs, integrs, detected, uvlContent>>

(***************************************************************************)
(* Bounds and input universes                                              *)
(***************************************************************************)
MaxObjects == 2      \* <object> elements in a diagram

MaxLines == 2        \* lines in a mapping file

MaxTextLen == 3      \* characters in a text given to the identifier formatter

\* all sequences over S of length 0 .. n
SeqsUpTo(S, n) == UNION {[1..k -> S] : k \in 0..n}

MissingFile == [exists |-> FALSE, lines |-> <<>>]

FileOf(lines) == [exists |-> TRUE, lines |-> lines]

LocalsUnbound ==
    /\ mappingDictionaries = Unbound
    /\ objectList = Unbound
    /\ rootLabel = Unbound
    /\ rootFeature = Unbound
    /\ algos = Unbound
    /\ nfrs = Unbound
    /\ backs = Unbound
    /\ integrs = Unbound
    /\ detected = Unbound
    /\ uvlContent = Unbound

(***************************************************************************)
(* Spec: one run of generateUvlFromIStarXml, in either script, on a config *)
(* directory where each file is missing or present and a diagram that is   *)
(* unparseable or holds up to MaxObjects objects.                          *)
(***************************************************************************)
ConfigContent ==
    [c \in Range(Categories) |->
        CASE c = "algorithms"  -> <<<<"a","e","s"," ","=",">"," ","A","E","S">>, <<"r","s","a"," ","=",">"," ","R","S","A">>>>
          [] c = "nfrs"        -> <<<<"#"," ","q","u","a","l","i","t","y">>, <<"p","r","e","c","i","s"," ","=",">"," ","P","r","e","c","i","s","i","o","n">>>>
          [] c = "backend"     -> <<<<"g","p","u"," ","=",">"," ","H","a","r","d","w","a","r","e">>>>
          [] c = "integration" -> <<<<"b","u","s"," ","=",">"," ","M","i","d","d","l","e","w","a","r","e">>>>]

ConfigDirs ==
    {[c \in Range(Categories) |->
         IF c \in present THEN FileOf(ConfigContent[c]) ELSE MissingFile] :
     present \in SUBSET Range(Categories)}

XmlObjects ==
    {[type |-> <<"g","o","a","l">>, label |-> <<"F","o","l","d"," ","a","e","s">>],
     [type |-> <<"G","o","a","l">>, label |-> <<"<","b",">","B","i","n","d","<","/","b",">"," ","r","s","a"," ","p","r","e","c","i","s","e","l","y">>],
     [type |-> <<"g","o","a","l">>, label |-> <<" ","<","b","r",">"," ">>],
     [type |-> <<"g","o","a","l">>, label |-> None],
     [type |-> <<"t","a","s","k">>, label |-> <<"u","s","e"," ","G","P","U">>],
     [type |-> None, label |-> <<"b","u","s">>]}

XmlDocs ==
    {[parseable |-> FALSE, objects |-> <<>>]}
    \cup {[parseable |-> TRUE, objects |-> objs] : objs \in SeqsUpTo(XmlObjects, MaxObjects)}

OldContent == <<"o","l","d">>

Init ==
    /\ variant \in Variants
    /\ configFiles \in ConfigDirs
    /\ xmlDoc \in XmlDocs
    /\ outputBefore \in {Absent, OldContent}
    /\ outputFile = outputBefore
    /\ pc = "load"
    /\ error = NoError
    /\ LocalsUnbound

Next ==
    \/ LoadConfig
    \/ ParseXml
    \/ SelectRootLabel
    \/ FormatRootFeature
    \/ MapObjects
    \/ BuildUvl
    \/ OpenOutput
    \/ WriteOutput

Spec == Init /\ [][Next]_vars

(***************************************************************************)
(* Claims checked under Spec                                               *)
(***************************************************************************)
\* the statements after the root-label loop
AfterSelect == {"format", "map", "build", "open", "write", "done"}

\* an object that can supply the root label: a goal whose label holds a
\* character that is not whitespace
QualifiesAsRoot(obj) ==
    /\ obj.type = <<"g","o","a","l">>
    /\ \E i \in DOMAIN obj.label : ~IsSpace(obj.label[i])

SomeObjectQualifies == \E i \in DOMAIN objectList : QualifiesAsRoot(objectList[i])

\* C4: whenever some parsed object is a goal with a non-empty trimmed label,
\* the root label is the label of the first such object in document order.
C4_RootLabelIsFirstGoal ==
    (pc \in AfterSelect /\ SomeObjectQualifies) =>
        \E i \in DOMAIN objectList :
            /\ QualifiesAsRoot(objectList[i])
            /\ \A j \in 1..(i - 1) : ~QualifiesAsRoot(objectList[j])
            /\ rootLabel = objectList[i].label

\* C4 witness: two goals with different non-empty labels were parsed and the
\* earlier one supplied the root label.
C4_Witness ==
    /\ pc \in AfterSelect
    /\ \E i, j \in DOMAIN objectList :
          /\ i < j
          /\ QualifiesAsRoot(objectList[i])
          /\ QualifiesAsRoot(objectList[j])
          /\ objectList[i].label # objectList[j].label
          /\ rootLabel = objectList[i].label

\* C5: when no parsed object qualifies as root goal the run is not aborted:
\* a fallback root label is used and the run goes on to write the output.
C5_FallbackWhenNoRootGoal ==
    ((pc \in AfterSelect \/ error = "UnboundLocalError") /\ ~SomeObjectQualifies) =>
        /\ rootLabel # Unbound
        /\ pc # "failed"
        /\ (pc = "done" => outputFile = uvlContent)

\* C6: a missing mapping file does not make loading fail: its table is empty,
\* the other tables are loaded as usual, and the run continues.
C6_MissingFileTolerated ==
    \A c \in Range(Categories) :
        (\A d \in Range(Categories) : configFiles[d].exists <=> d # c) =>
            /\ error # "FileNotFoundError"
            /\ (pc \notin {"load", "failed"} =>
                   /\ mappingDictionaries[c] = EmptyDict
                   /\ \A d \in Range(Categories) \ {c} :
                          mappingDictionaries[d] =
                              LoadLines(variant, EmptyDict, configFiles[d].lines))

\* C7: the output file differs from what it was before the run only after
\* loading, parsing, root selection, classification and rendering have all
\* completed without error; a run that failed left it as it was.
C7_OutputOnlyAfterAllStages ==
    /\ outputFile # outputBefore =>
          /\ pc \in {"write", "done"}
          /\ error = NoError
          /\ rootFeature = FormatRoot(variant, rootLabel)
          /\ uvlContent = buildUvlModel(rootFeature, algos, nfrs, backs, integrs)
          /\ outputFile \in {<<>>, uvlContent}
    /\ pc = "failed" => outputFile = outputBefore
    /\ pc = "done" => outputFile = uvlContent

\* C7 witness: a run on an unparseable diagram has ended and the output path
\* still holds what it held before.
C7_Witness ==
    /\ pc = "failed"
    /\ error = "ParseError"
    /\ outputFile = outputBefore

(***************************************************************************)
(* SpecClassify: mapIStarObjectsToFeatures on every list of up to          *)
(* MaxObjects objects with a label of NormLabels and every choice of four  *)
(* tables, each any subset of its category's entries.                      *)
(***************************************************************************)
NormLabels ==
    {<<>>,
     <<"u","s","e","s"," ","a","e","s"," ","e","n","c","r","y","p","t","i","o","n">>,
     <<"c","a","e","s","a","r"," ","o","n"," ","a","w","s"," ","a","p","i">>,
     <<"f","a","s","t"," ","r","s","a"," ","g","p","u"," ","b","u","s">>}

\* <<keyword, feature>> pairs a category's file may declare; the line
\* "=> Speed" declares the empty keyword
TableEntries ==
    [c \in Range(Categories) |->
        CASE c = "algorithms"  -> {<<<<"a","e","s">>, <<"A","E","S">>>>, <<<<"r","s","a">>, <<"R","S","A">>>>,
                                   <<<<"e","s"," ","e">>, <<"A","E","S">>>>}
          [] c = "nfrs"        -> {<<<<>>, <<"S","p","e","e","d">>>>, <<<<"e","n","c","r","y","p","t">>, <<"S","e","c","u","r","i","t","y">>>>}
          [] c = "backend"     -> {<<<<"g","p","u">>, <<"H","a","r","d","w","a","r","e">>>>, <<<<"a","w","s">>, <<"C","l","o","u","d">>>>}
          [] c = "integration" -> {<<<<"b","u","s">>, <<"M","i","d","d","l","e","w","a","r","e">>>>, <<<<"a","p","i">>, <<"R","e","s","t">>>>}]

\* the dict holding the given entries (their keywords are distinct)
DictOf(entries) ==
    [k \in {e[1] : e \in entries} |-> (CHOOSE e \in entries : e[1] = k)[2]]

MappingChoices ==
    {[algorithms |-> DictOf(a), nfrs |-> DictOf(n),
      backend |-> DictOf(b), integration |-> DictOf(i)] :
        a \in SUBSET TableEntries["algorithms"],
        n \in SUBSET TableEntries["nfrs"],
        b \in SUBSET TableEntries["backend"],
        i \in SUBSET TableEntries["integration"]}

ObjectOfLabel(label) == parseObject([type |-> <<"t","a","s","k">>, label |-> label])

\* mapIStarObjectsToFeatures and applyDefaultValues are the same in both scripts
InitClassify ==
    /\ variant = StdVariant
    /\ configFiles = [c \in Range(Categories) |-> MissingFile]
    /\ xmlDoc = [parseable |-> TRUE, objects |-> <<>>]
    /\ outputBefore = Absent
    /\ outputFile = Absent
    /\ pc = "map"
    /\ error = NoError
    /\ mappingDictionaries \in MappingChoices
    /\ objectList \in {[i \in DOMAIN labels |-> ObjectOfLabel(labels[i])] :
                          labels \in SeqsUpTo(NormLabels, MaxObjects)}
    /\ rootLabel = ProteinFolding
    /\ rootFeature = convertTextToUvlIdentifier(ProteinFolding)
    /\ algos = Unbound
    /\ nfrs = Unbound
    /\ backs = Unbound
    /\ integrs = Unbound
    /\ detected = Unbound
    /\ uvlContent = Unbound

NextClassify == MapObjects

SpecClassify == InitClassify /\ [][NextClassify]_vars

(***************************************************************************)
(* Claims checked under SpecClassify                                       *)
(***************************************************************************)
\* keyword occurs in text as a contiguous run of characters
OccursIn(keyword, text) ==
    \E start \in 0..Len(text) :
        /\ start + Len(keyword) <= Len(text)
        /\ \A j \in 1..Len(keyword) : text[start + j] = keyword[j]

\* some object's normalized label holds some keyword the table maps to feature
Triggered(feature, table) ==
    \E i \in DOMAIN objectList :
        \E keyword \in DOMAIN table :
            /\ table[keyword] = feature
            /\ OccursIn(keyword, objectList[i].norm)

DeclaredFeatures == UNION {DictValues(mappingDictionaries[c]) : c \in Range(Categories)}

\* C1: a feature is in the algorithms (nfrs) result, and in the backend
\* (integration) set detected before the fallback, exactly when some object's
\* normalized label contains some keyword its table maps to that feature.
C1_SubstringClassification ==
    pc = "build" =>
        \A f \in DeclaredFeatures \cup Range(algos) \cup Range(nfrs)
                 \cup detected.backend \cup detected.integration :
            /\ f \in Range(algos) <=> Triggered(f, mappingDictionaries["algorithms"])
            /\ f \in Range(nfrs) <=> Triggered(f, mappingDictionaries["nfrs"])
            /\ f \in detected.backend <=> Triggered(f, mappingDictionaries["backend"])
            /\ f \in detected.integration <=>
                   Triggered(f, mappingDictionaries["integration"])

\* C1 witness: "aes" matched inside the word "caesar" and nowhere as a word
\* of its own, while "rsa", declared too, occurs in no label.
C1_Witness ==
    /\ pc = "build"
    /\ Len(objectList) = 1
    /\ objectList[1].norm = <<"c","a","e","s","a","r"," ","o","n"," ","a","w","s"," ","a","p","i">>
    /\ DOMAIN mappingDictionaries["algorithms"] = {<<"a","e","s">>, <<"r","s","a">>}
    /\ algos = <<<<"A","E","S">>>>

\* C2: the final backend set is {"Hardware"} when nothing was detected and the
\* backend table declares "Hardware", and the detected set otherwise; likewise
\* integration with "Middleware"; no undeclared feature is ever added.
C2_DefaultOnlyWhenDeclared ==
    pc = "build" =>
        /\ IF detected.backend = {}
              /\ \E k \in DOMAIN mappingDictionaries["backend"] :
                     mappingDictionaries["backend"][k] = Hardware
           THEN backs = <<Hardware>>
           ELSE Range(backs) = detected.backend
        /\ IF detected.integration = {}
              /\ \E k \in DOMAIN mappingDictionaries["integration"] :
                     mappingDictionaries["integration"][k] = Middleware
           THEN integrs = <<Middleware>>
           ELSE Range(integrs) = detected.integration
        /\ Range(backs) \subseteq DictValues(mappingDictionaries["backend"])
        /\ Range(integrs) \subseteq DictValues(mappingDictionaries["integration"])

\* C2 witness: nothing detected in either category; the backend table declares
\* "Hardware" and the fallback fired, the integration table declares only
\* "Rest" and the integration list stayed empty.
C2_Witness ==
    /\ pc = "build"
    /\ detected.backend = {}
    /\ detected.integration = {}
    /\ backs = <<Hardware>>
    /\ integrs = <<>>
    /\ DictValues(mappingDictionaries["integration"]) = {<<"R","e","s","t">>}

\* a comes strictly before b: at the first position where they differ a has
\* ended or holds the smaller code point
StrictlyBefore(a, b) ==
    \E p \in 1..Len(b) :
        /\ \A j \in 1..(p - 1) : j <= Len(a) /\ a[j] = b[j]
        /\ \/ Len(a) = p - 1
           \/ Len(a) >= p /\ Ord(a[p]) < Ord(b[p])

StrictlyAscending(list) ==
    \A i \in 1..(Len(list) - 1) : StrictlyBefore(list[i], list[i + 1])

\* C3: each of the four returned lists is in strictly ascending order, hence
\* free of duplicates.
C3_ListsStrictlyAscending ==
    pc = "build" =>
        /\ StrictlyAscending(algos)
        /\ StrictlyAscending(nfrs)
        /\ StrictlyAscending(backs)
        /\ StrictlyAscending(integrs)

\* C3 witness: two keywords and two objects triggered "AES", which is listed
\* once; the backend fallback was applied.
C3_Witness ==
    /\ pc = "build"
    /\ Len(objectList) = 2
    /\ objectList[1].norm = <<"u","s","e","s"," ","a","e","s"," ","e","n","c","r","y","p","t","i","o","n">>
    /\ objectList[2].norm = <<"c","a","e","s","a","r"," ","o","n"," ","a","w","s"," ","a","p","i">>
    /\ Cardinality(DOMAIN mappingDictionaries["algorithms"]) = 3
    /\ algos = <<<<"A","E","S">>>>
    /\ detected.backend = {}
    /\ backs = <<Hardware>>

(***************************************************************************)
(* SpecLoad: loadAllMappingFiles, in either script, on a directory where   *)
(* one category's file holds up to MaxLines lines of MappingLines and the  *)
(* other three files are empty.                                            *)
(***************************************************************************)
MappingLines ==
    {<<>>,
     <<" ","\t">>,
     <<"#"," ","n","o","t","e">>,
     <<"#","k","=",">","V">>,
     <<" "," ","#"," ","k"," ","=",">"," ","V">>,
     <<"k">>,
     <<"k","=",">","V">>,
     <<" ","K"," "," ","x"," ","=",">"," ","V","v"," ">>,
     <<"a","=",">","b","=",">","c">>,
     <<"k"," ","=",">"," ","W">>,
     <<"=",">","V">>,
     <<"k","=",">">>}

InitLoad ==
    /\ variant \in Variants
    /\ \E c \in Range(Categories) :
          \E lines \in SeqsUpTo(MappingLines, MaxLines) :
              configFiles = [d \in Range(Categories) |->
                                IF d = c THEN FileOf(lines) ELSE FileOf(<<>>)]
    /\ xmlDoc = [parseable |-> TRUE, objects |-> <<>>]
    /\ outputBefore = Absent
    /\ outputFile = Absent
    /\ pc = "load"
    /\ error = NoError
    /\ LocalsUnbound

NextLoad == LoadConfig

SpecLoad == InitLoad /\ [][NextLoad]_vars

\* the line holds a character that is not whitespace
IsNonBlank(line) == \E i \in DOMAIN line : ~IsSpace(line[i])

\* the first character of the line that is not whitespace is "#"
IsComment(line) ==
    \E i \in DOMAIN line :
        /\ line[i] = "#"
        /\ \A j \in 1..(i - 1) : IsSpace(line[j])

\* "=>" begins at position p of the line
ArrowAt(line, p) == p + 1 <= Len(line) /\ line[p] = "=" /\ line[p + 1] = ">"

\* the lines the claim keeps
IsKept(line) ==
    /\ IsNonBlank(line)
    /\ ~IsComment(line)
    /\ \E p \in DOMAIN line : ArrowAt(line, p)

FirstArrow(line) ==
    CHOOSE p \in DOMAIN line : ArrowAt(line, p) /\ \A q \in 1..(p - 1) : ~ArrowAt(line, q)

KeptKey(line) == normalizeText(SubSeq(line, 1, FirstArrow(line) - 1))

KeptValue(line) == Strip(SubSeq(line, FirstArrow(line) + 2, Len(line)))

\* the table the claim describes: one entry per kept line, a later line
\* replacing an earlier one with the same key
ClaimedTable(lines) ==
    LET kept == {i \in DOMAIN lines : IsKept(lines[i])}
        lastWith(k) == CHOOSE i \in kept :
                           /\ KeptKey(lines[i]) = k
                           /\ \A j \in kept : KeptKey(lines[j]) = k => j <= i
    IN  [k \in {KeptKey(lines[i]) : i \in kept} |-> KeptValue(lines[lastWith(k)])]

\* C8: the table is built only from the lines that are non-blank, are no
\* "#" comment and contain "=>"; each such line gives the entry
\* normalized-key -> trimmed value.
C8_OnlyMappingLinesKept ==
    pc = "parse" =>
        \A c \in Range(Categories) :
            mappingDictionaries[c] = ClaimedTable(configFiles[c].lines)

(***************************************************************************)
(* SpecIdent: the root-identifier formatter of either script on None and   *)
(* on every text of up to MaxTextLen characters of IdentChars.             *)
(***************************************************************************)
IdentChars == {"a", "B", "1", " ", "_", "-", "<", ">"}

InitIdent ==
    /\ variant \in Variants
    /\ configFiles = [c \in Range(Categories) |-> FileOf(<<>>)]
    /\ xmlDoc = [parseable |-> TRUE, objects |-> <<>>]
    /\ outputBefore = Absent
    /\ outputFile = Absent
    /\ pc = "format"
    /\ error = NoError
    /\ mappingDictionaries = [c \in Range(Categories) |-> EmptyDict]
    /\ objectList = <<>>
    /\ rootLabel \in {None} \cup SeqsUpTo(IdentChars, MaxTextLen)
    /\ rootFeature = Unbound
    /\ algos = Unbound
    /\ nfrs = Unbound
    /\ backs = Unbound
    /\ integrs = Unbound
    /\ detected = Unbound
    /\ uvlContent = Unbound

NextIdent == FormatRootFeature

SpecIdent == InitIdent /\ [][NextIdent]_vars

\* what the claim's formatter contributes for character i of the text: every
\* character that is not alphanumeric separates words, the first character of
\* a word is upper-cased, the others are lower-cased
ClaimedChar(text, i) ==
    IF ~IsAlnumChar(text[i]) THEN <<>>
    ELSE IF i = 1 \/ ~IsAlnumChar(text[i - 1]) THEN <<UpperChar(text[i])>>
    ELSE <<LowerChar(text[i])>>

RECURSIVE ClaimedConcat(_, _)
ClaimedConcat(text, i) ==
    IF i > Len(text) THEN <<>> ELSE ClaimedChar(text, i) \o ClaimedConcat(text, i + 1)

LeavesNoWord(text) ==
    text = None \/ \A i \in DOMAIN text : ~IsAlnumChar(text[i])

ClaimedIdentifier(text) ==
    IF LeavesNoWord(text) THEN RootGoal ELSE ClaimedConcat(text, 1)

\* C9: the formatter returns the capitalized words of the text concatenated,
\* punctuation separating words; "RootGoal" exactly when the text is null,
\* empty or leaves no word; never the empty string.
C9_PunctuationSeparatesWords ==
    pc = "map" =>
        /\ rootFeature = ClaimedIdentifier(rootLabel)
        /\ rootFeature = RootGoal <=> LeavesNoWord(rootLabel)
        /\ rootFeature # <<>>

(***************************************************************************)
(* SpecRender: buildUvlModel on every choice of four sorted,               *)
(* duplicate-free feature lists.                                           *)
(***************************************************************************)
RenderRoots == {<<"T","e","s","t">>, RootGoal}

RenderAlgos == {<<"A","E","S">>, <<"R","S","A">>}

RenderNfrs == {Precision, <<"p","r","e","c","i","s","i","o","n">>, <<"S","p","e","e","d">>}

RenderBacks == {Hardware, <<"C","l","o","u","d">>}

RenderIntegrs == {Middleware}

SortedLists(S) == {Sorted(sub) : sub \in SUBSET S}

\* buildUvlModel is the same in both scripts
InitRender ==
    /\ variant = StdVariant
    /\ configFiles = [c \in Range(Categories) |-> FileOf(<<>>)]
    /\ xmlDoc = [parseable |-> TRUE, objects |-> <<>>]
    /\ outputBefore = Absent
    /\ outputFile = Absent
    /\ pc = "build"
    /\ error = NoError
    /\ mappingDictionaries = [c \in Range(Categories) |-> EmptyDict]
    /\ objectList = <<>>
    /\ rootLabel = ProteinFolding
    /\ rootFeature \in RenderRoots
    /\ algos \in SortedLists(RenderAlgos)
    /\ nfrs \in SortedLists(RenderNfrs)
    /\ backs \in SortedLists(RenderBacks)
    /\ integrs \in SortedLists(RenderIntegrs)
    /\ detected = [backend |-> Range(backs), integration |-> Range(integrs)]
    /\ uvlContent = Unbound

NextRender == BuildUvl

SpecRender == InitRender /\ [][NextRender]_vars

\* position of the j-th line break of text; 0 for j = 0, Len(text) + 1 past the last
BreakAt(text, j) ==
    LET breaks == {i \in DOMAIN text : text[i] = "\n"}
    IN  IF j = 0 THEN 0
        ELSE IF j > Cardinality(breaks) THEN Len(text) + 1
        ELSE CHOOSE p \in breaks : Cardinality({q \in breaks : q < p}) = j - 1

\* text.split("\n")
SplitLines(text) ==
    LET count == Cardinality({i \in DOMAIN text : text[i] = "\n"})
    IN  [j \in 1..(count + 1) |->
            SubSeq(text, BreakAt(text, j - 1) + 1, BreakAt(text, j) - 1)]

OutputLines == SplitLines(uvlContent)

EndsWith(s, suffix) ==
    /\ Len(suffix) <= Len(s)
    /\ \A j \in 1..Len(suffix) : s[Len(s) - Len(suffix) + j] = suffix[j]

IsRequiresLine(line) == EndsWith(line, <<" ","r","e","q","u","i","r","e","s"," ","P","r","e","c","i","s","i","o","n">>)

\* C10: a constraints block is appended exactly when there is an algorithm
\* and "Precision" is among the nfrs; it follows the features block and holds
\* one "<algo> requires Precision" line per algorithm, in list order, and
\* nothing else; without it the output has no requires line.
C10_ConstraintsIffPrecision ==
    pc = "open" =>
        LET lines == OutputLines
            n == Len(lines)
            k == Len(algos)
        IN  IF k > 0 /\ \E i \in DOMAIN nfrs : nfrs[i] = Precision
            THEN /\ n >= k + 5
                 /\ lines[n - k - 3] = <<"}">>
                 /\ lines[n - k - 2] = <<>>
                 /\ lines[n - k - 1] = <<"c","o","n","s","t","r","a","i","n","t","s"," ","{">>
                 /\ \A i \in 1..k :
                        lines[n - k - 1 + i] = <<" "," ">> \o algos[i] \o <<" ","r","e","q","u","i","r","e","s"," ","P","r","e","c","i","s","i","o","n">>
                 /\ lines[n] = <<"}">>
                 /\ \A j \in 1..(n - k - 2) :
                        lines[j] # <<"c","o","n","s","t","r","a","i","n","t","s"," ","{">> /\ ~IsRequiresLine(lines[j])
            ELSE /\ lines[n] = <<>>
                 /\ \A j \in 1..n :
                        lines[j] # <<"c","o","n","s","t","r","a","i","n","t","s"," ","{">> /\ ~IsRequiresLine(lines[j])

\* C10 witness: two algorithms with "Precision" among the nfrs: the output
\* ends with the constraints block of two requires lines.
C10_Witness ==
    /\ pc = "open"
    /\ algos = <<<<"A","E","S">>, <<"R","S","A">>>>
    /\ Precision \in Range(nfrs)
    /\ Len(nfrs) = 2
    /\ OutputLines[Len(OutputLines) - 1] = <<" "," ","R","S","A"," ","r","e","q","u","i","r","e","s"," ","P","r","e","c","i","s","i","o","n">>

\* lines needed by the sub-block of a list: header, one per feature, closer
BlockSize(items) == IF Len(items) > 0 THEN Len(items) + 2 ELSE 0

\* the sub-block of items stands at lines at .. at + Len(items) + 1
BlockAt(lines, at, title, items) ==
    Len(items) > 0 =>
        /\ lines[at] = <<" "," "," "," ">> \o title \o <<" ","{">>
        /\ \A i \in DOMAIN items : lines[at + i] = <<" "," "," "," "," "," ">> \o items[i]
        /\ lines[at + Len(items) + 1] = <<" "," "," "," ","}">>

\* number of lines of the features block: two openers, the children, two closers
FeaturesBlockSize ==
    4 + BlockSize(algos) + BlockSize(backs) + BlockSize(integrs) + Len(nfrs)

HeaderOccurs(lines, title) ==
    \E j \in 1..FeaturesBlockSize : lines[j] = <<" "," "," "," ">> \o title \o <<" ","{">>

\* C11: in the features block the root's children are the Algorithm
\* sub-block, the Backend sub-block, the IntegrationModel sub-block and then
\* the nfr features, in this order and with nothing else; a sub-block is
\* there exactly when its list is non-empty and holds the list's features
\* one per line in list order; each nfr is a line at the root's child
\* indentation, in list order, after every sub-block.
C11_FeatureChildrenOrder ==
    pc = "open" =>
        LET lines == OutputLines
            a == 3
            b == a + BlockSize(algos)
            i == b + BlockSize(backs)
            n == i + BlockSize(integrs)
            e == n + Len(nfrs)
        IN  /\ Len(lines) >= e + 2
            /\ lines[1] = <<"f","e","a","t","u","r","e","s"," ","{">>
            /\ lines[2] = <<" "," ">> \o rootFeature \o <<" ","{">>
            /\ BlockAt(lines, a, <<"A","l","g","o","r","i","t","h","m">>, algos)
            /\ BlockAt(lines, b, <<"B","a","c","k","e","n","d">>, backs)
            /\ BlockAt(lines, i, <<"I","n","t","e","g","r","a","t","i","o","n","M","o","d","e","l">>, integrs)
            /\ \A j \in DOMAIN nfrs : lines[n - 1 + j] = <<" "," "," "," ">> \o nfrs[j]
            /\ lines[e] = <<" "," ","}">>
            /\ lines[e + 1] = <<"}">>
            /\ lines[e + 2] = <<>>
            /\ HeaderOccurs(lines, <<"A","l","g","o","r","i","t","h","m">>) <=> Len(algos) > 0
            /\ HeaderOccurs(lines, <<"B","a","c","k","e","n","d">>) <=> Len(backs) > 0
            /\ HeaderOccurs(lines, <<"I","n","t","e","g","r","a","t","i","o","n","M","o","d","e","l">>) <=> Len(integrs) > 0

\* C11 witness: two algorithms, two backends, one integration and two nfrs:
\* the three sub-blocks open at lines 3, 7 and 11 and the nfr lines follow
\* at lines 14 and 15.
C11_Witness ==
    /\ pc = "open"
    /\ algos = <<<<"A","E","S">>, <<"R","S","A">>>>
    /\ backs = <<<<"C","l","o","u","d">>, Hardware>>
    /\ integrs = <<Middleware>>
    /\ nfrs = <<Precision, <<"S","p","e","e","d">>>>
    /\ OutputLines[3] = <<" "," "," "," ","A","l","g","o","r","i","t","h","m"," ","{">>
    /\ OutputLines[7] = <<" "," "," "," ","B","a","c","k","e","n","d"," ","{">>
    /\ OutputLines[11] = <<" "," "," "," ","I","n","t","e","g","r","a","t","i","o","n","M","o","d","e","l"," ","{">>
    /\ OutputLines[14] = <<" "," "," "," ","P","r","e","c","i","s","i","o","n">>
    /\ OutputLines[15] = <<" "," "," "," ","S","p","e","e","d">>

\* C11 with an empty list: no algorithm and no integration leave the Backend
\* sub-block as the root's first child, followed directly by the nfr line.
C11_WitnessEmptyLists ==
    /\ pc = "open"
    /\ algos = <<>>
    /\ integrs = <<>>
    /\ backs = <<Hardware>>
    /\ nfrs = <<<<"S","p","e","e","d">>>>
    /\ OutputLines[3] = <<" "," "," "," ","B","a","c","k","e","n","d"," ","{">>
    /\ OutputLines[6] = <<" "," "," "," ","S","p","e","e","d">>

====
